---- MODULE Spec2Model ----
(***************************************************************************)
(* docker-updater: a model of src/docker-updater.py.                       *)
(*                                                                         *)
(* The script pins the images of running compose projects to the digest    *)
(* the registry reports: per project it plans (get_services_to_update,     *)
(* get_latest_digest with its mirror fallback) and then deploys            *)
(* (perform_deployment: pull, backup, down, manifest rewrite, rollback,    *)
(* up, cleanup).  Strings are sequences of one-character strings, so that  *)
(* parse_image_string and build_image_string_with_digest are computed as   *)
(* the code computes them.                                                 *)
(***************************************************************************)
EXTENDS Integers, Sequences, FiniteSets, TLC

(***************************************************************************)
(* Strings                                                                 *)
(***************************************************************************)

\* Python's None.  A real string holds one-character elements only, so no
\* string equals it.
None == <<"<None>">>

\* Python truthiness of an Optional[str]: None and "" are falsy.
Truthy(x) == x # None /\ x # <<>>

HexDigits == {"0", "1", "2", "3", "4", "5", "6", "7", "8", "9",
              "a", "b", "c", "d", "e", "f"}

\* The number of hex digits of a sha256 digest: {64} in both regular
\* expressions of the source.
HexLen == 64

Rep(c, n) == [i \in 1..n |-> c]

Sha256Colon == <<"s", "h", "a", "2", "5", "6", ":">>
DockerScheme == <<"d", "o", "c", "k", "e", "r", ":", "/", "/">>
DockerIo == <<"d", "o", "c", "k", "e", "r", ".", "i", "o">>
Localhost == <<"l", "o", "c", "a", "l", "h", "o", "s", "t">>
Loopback == <<"1", "2", "7", ".", "0", ".", "0", ".", "1">>
Latest == <<"l", "a", "t", "e", "s", "t">>

Contains(s, c) == \E i \in 1..Len(s) : s[i] = c

\* The 1-based index of the first c in s, 0 when there is none (str.find).
IndexOf(s, c) ==
    IF Contains(s, c) THEN CHOOSE i \in 1..Len(s) :
                               s[i] = c /\ \A j \in 1..(i - 1) : s[j] # c
    ELSE 0

StartsWithAt(s, pat, i) ==
    /\ i + Len(pat) - 1 <= Len(s)
    /\ \A k \in 1..Len(pat) : s[i + k - 1] = pat[k]

\* str.replace(pat, ""): every non-overlapping occurrence of pat, left to
\* right, is removed.
RECURSIVE RemoveAllFrom(_, _, _)
RemoveAllFrom(s, pat, i) ==
    IF i > Len(s) THEN <<>>
    ELSE IF Len(pat) > 0 /\ StartsWithAt(s, pat, i)
         THEN RemoveAllFrom(s, pat, i + Len(pat))
         ELSE <<s[i]>> \o RemoveAllFrom(s, pat, i + 1)

RemoveAll(s, pat) ==
    CHOOSE r \in {RemoveAllFrom(a, b, 1) : a \in {s}, b \in {pat}} : TRUE

\* re.match(r"^sha256:[0-9a-f]{64}$", d): "$" matches at the end of the
\* string and also just before a newline that ends it.
IsHexRun(s, from, n) ==
    /\ from + n - 1 <= Len(s)
    /\ \A k \in from..(from + n - 1) : s[k] \in HexDigits

MatchesDigestAt(s, i) ==
    /\ StartsWithAt(s, Sha256Colon, i)
    /\ IsHexRun(s, i + Len(Sha256Colon), HexLen)

DigestPatternLen == Len(Sha256Colon) + HexLen

IsValidDigest(d) ==
    /\ d # None
    /\ MatchesDigestAt(d, 1)
    /\ \/ Len(d) = DigestPatternLen
       \/ Len(d) = DigestPatternLen + 1 /\ d[Len(d)] = "\n"

(***************************************************************************)
(* ReferenceCodec: parse_image_string, build_image_string_with_digest      *)
(***************************************************************************)

\* re.search(r"(@sha256:[0-9a-f]{64})$", s): the index of the "@" of the
\* match, 0 when there is none.  The match ends at the end of s, or just
\* before a newline that ends s.
DigestMatchStart(s) ==
    LET n == Len(s)
        atEnd == n - DigestPatternLen
        beforeNl == n - DigestPatternLen - 1
    IN  IF atEnd >= 1 /\ s[atEnd] = "@" /\ MatchesDigestAt(s, atEnd + 1)
        THEN atEnd
        ELSE IF /\ beforeNl >= 1
                /\ s[n] = "\n"
                /\ s[beforeNl] = "@"
                /\ MatchesDigestAt(s, beforeNl + 1)
             THEN beforeNl
             ELSE 0

\* re.search(r":([^/]+)$", s): the index of the ":" of the leftmost match,
\* 0 when there is none.  [^/]+ takes every character up to the end.
TagMatchStart(s) ==
    LET ok(i) == /\ s[i] = ":"
                 /\ i < Len(s)
                 /\ \A k \in (i + 1)..Len(s) : s[k] # "/"
    IN  IF \E i \in 1..Len(s) : ok(i)
        THEN CHOOSE i \in 1..Len(s) : ok(i) /\ \A j \in 1..(i - 1) : ~ok(j)
        ELSE 0

\* The registry rule of parse_image_string: the part before the first "/"
\* names a registry when it holds "." or ":" or is "localhost".
LooksLikeRegistryNoPort(part) == Contains(part, ".") \/ part = Localhost

LooksLikeRegistry(part) ==
    Contains(part, ".") \/ Contains(part, ":") \/ part = Localhost

\* The one element of a one-element set.  {F(x) : x \in {e}} computes e
\* once and hands its value to F.
Only(S) == CHOOSE x \in S : TRUE

\* parse_image_string, lines 388-405: user and repo from repopath.
ParseUser(raw, digest, tag, registry, repopath, slash) ==
    [registry |-> registry,
     user |-> IF slash > 0 THEN SubSeq(repopath, 1, slash - 1) ELSE None,
     repo |-> IF slash > 0 THEN SubSeq(repopath, slash + 1, Len(repopath))
              ELSE repopath,
     tag |-> tag, digest |-> digest, raw |-> raw, repopath |-> repopath]

\* Lines 372-386: registry and repopath from the string without its tag.
ParseRegistry(raw, digest, tag, image_str_no_tag, slash) ==
    LET part0 == IF slash > 0 THEN SubSeq(image_str_no_tag, 1, slash - 1)
                 ELSE image_str_no_tag
        hasRegistry == slash > 0 /\ LooksLikeRegistry(part0)
    IN  Only({Only({ParseUser(raw, digest, tag, registry, repopath, slash2) :
                    slash2 \in {IndexOf(repopath, "/")}}) :
              registry \in {IF hasRegistry THEN part0 ELSE None},
              repopath \in {IF hasRegistry
                            THEN SubSeq(image_str_no_tag, slash + 1,
                                        Len(image_str_no_tag))
                            ELSE image_str_no_tag}})

\* Lines 364-370: the tag.
ParseTag(raw, digest, image_str, tm) ==
    Only({Only({ParseRegistry(raw, digest, tag, image_str_no_tag, slash) :
                slash \in {IndexOf(image_str_no_tag, "/")}}) :
          tag \in {IF tm > 0 THEN SubSeq(image_str, tm + 1, Len(image_str))
                   ELSE <<>>},
          image_str_no_tag \in {IF tm > 0 THEN SubSeq(image_str, 1, tm - 1)
                                ELSE image_str}})

\* Lines 356-362: the digest.
ParseDigest(raw, dm) ==
    Only({Only({ParseTag(raw, digest, image_str, tm) :
                tm \in {TagMatchStart(image_str)}}) :
          digest \in {IF dm > 0 THEN SubSeq(raw, dm + 1, dm + DigestPatternLen)
                      ELSE None},
          image_str \in {IF dm > 0 THEN SubSeq(raw, 1, dm - 1) ELSE raw}})

parse_image_string(image_full_name) ==
    Only({Only({ParseDigest(raw, dm) : dm \in {DigestMatchStart(raw)}}) :
          raw \in {image_full_name}})

build_image_string_with_digest_NoDigest(image_info, new_digest) ==
    (IF Truthy(image_info.registry) THEN image_info.registry \o <<"/">>
     ELSE <<>>)
    \o image_info.repopath
    \o (IF Truthy(image_info.tag) THEN <<":">> \o image_info.tag ELSE <<>>)

build_image_string_with_digest_NoTag(image_info, new_digest) ==
    (IF Truthy(image_info.registry) THEN image_info.registry \o <<"/">>
     ELSE <<>>)
    \o image_info.repopath
    \o <<"@">> \o new_digest

build_image_string_with_digest_NoRegistry(image_info, new_digest) ==
    image_info.repopath
    \o (IF Truthy(image_info.tag) THEN <<":">> \o image_info.tag ELSE <<>>)
    \o <<"@">> \o new_digest

build_image_string_with_digest(image_info, new_digest) ==
    (IF Truthy(image_info.registry) THEN image_info.registry \o <<"/">>
     ELSE <<>>)
    \o image_info.repopath
    \o (IF Truthy(image_info.tag) THEN <<":">> \o image_info.tag ELSE <<>>)
    \o <<"@">> \o new_digest

(***************************************************************************)
(* The environment: images, registries, mirrors, inspect results           *)
(***************************************************************************)

DigestA == Sha256Colon \o Rep("a", HexLen)
DigestB == Sha256Colon \o Rep("b", HexLen)
\* A digest the registry could not have produced: an upper-case hex digit.
BadDigest == Sha256Colon \o Rep("A", HexLen)

GhcrIo == <<"g", "h", "c", "r", ".", "i", "o">>
Mirror1 == <<"m", "1", ".", "x">>
Mirror2 == <<"m", "2", ".", "x">>
Mirror3 == <<"m", "3", ".", "x">>
GhcrMirror == <<"g", "m", ".", "x">>
MirrorHosts == <<Mirror1, Mirror2, Mirror3>>

ImgNginx == <<"n", "g", "i", "n", "x">>
ImgTeamApp == <<"t", "/", "a", "p", "p", ":", "v", "2">>
ImgGhcr == GhcrIo \o <<"/">> \o ImgTeamApp
ImgLocal == Localhost \o <<"/", "d", "e", "v", ":", "1">>
ImgLoopback == Loopback \o <<"/", "d", "e", "v">>
ImgPinned == ImgNginx \o <<":", "1", "@">> \o DigestA
ImgOld == ImgNginx \o <<":", "0">>
ImgLocalPinned == ImgLocal \o <<"@">> \o DigestA

\* A service entry without an "image" key: service_details.get("image").
NoImage == None

\* The services of a manifest, in the order the file lists them.
ServiceOrder == <<"web", "db">>
Services == {ServiceOrder[k] : k \in 1..Len(ServiceOrder)}

\* The files of a project: the manifest and its ".bak" sibling.  A file is
\* absent, holds a document with a services section, holds bytes the YAML
\* parser refuses (a write that stopped half way), or holds nothing (the
\* YAML parser loads it as None).
Absent == [kind |-> "absent"]
Partial == [kind |-> "partial"]
Empty == [kind |-> "empty"]
\* A document without a services section.
NoServices == [kind |-> "no_services"]
\* In a document: a service the services section does not hold.
Missing == <<"<missing>">>
Doc(web, db) == [kind |-> "doc", image |-> [s \in Services |->
                                             IF s = "web" THEN web ELSE db]]

DocPool == {Doc(ImgNginx, ImgTeamApp),
            Doc(ImgGhcr, ImgLocal),
            Doc(ImgPinned, NoImage),
            Doc(ImgTeamApp, ImgLoopback),
            Doc(ImgLocalPinned, ImgOld)}

\* What an earlier, interrupted run may have left as the backup.
StaleDoc == Doc(ImgOld, NoImage)

\* The longest mirror list of config.json the model draws.
MaxMirrors == 2

\* config.json's mirror lists for docker.io: up to MaxMirrors mirror hosts,
\* and the same lists ending with null (the origin marker, line 480).
MirrorLists ==
    {SubSeq(MirrorHosts, 1, k) : k \in 0..MaxMirrors}
    \cup {SubSeq(MirrorHosts, 1, k) \o <<None>> : k \in 1..MaxMirrors}

ConfigPool ==
    {(DockerIo :> l) @@ (GhcrIo :> <<GhcrMirror>>) : l \in MirrorLists}

\* dict.get(key, []) of Config.mirrors.
MirrorsGet(m, key) == IF key \in DOMAIN m THEN m[key] ELSE <<>>

\* What one "skopeo inspect" run can give: the tool is not installed, it
\* exits non-zero, or it exits 0 with its standard output: nothing, text
\* that holds no JSON, or a JSON object with "Digest" and "digest" keys
\* (None: the key is missing).
InspectJson(upper, lower) ==
    [kind |-> "json", Digest |-> upper, digest |-> lower]

InspectResults ==
    {[kind |-> "tool_missing"], [kind |-> "nonzero_exit"],
     [kind |-> "empty_output"], [kind |-> "unparsable"],
     InspectJson(None, None), InspectJson(BadDigest, None),
     InspectJson(DigestB, None), InspectJson(None, DigestA)}

\* A "Digest" value that ends with a line feed: in the JSON text, the
\* string "sha256:bbb...b\n".
DigestBLineFeed == DigestB \o <<"\n">>

\* Lines 555-581: manifest_data.get("Digest") or manifest_data.get("digest"),
\* accepted when it matches the digest pattern.  None: the candidate failed.
DigestOfResultLastKey(r) ==
    IF r.kind # "json" THEN None
    ELSE LET d == IF Truthy(r.digest) THEN r.digest ELSE r.Digest
         IN  IF Truthy(d) THEN d ELSE None

DigestOfResult(r) ==
    IF r.kind # "json" THEN None
    ELSE LET d == IF Truthy(r.Digest) THEN r.Digest ELSE r.digest
         IN  IF Truthy(d) /\ IsValidDigest(d) THEN d ELSE None

(***************************************************************************)
(* DigestResolver: get_latest_digest                                       *)
(***************************************************************************)

\* Lines 474-481: the list the loop walks.  An empty (or missing) entry
\* gives a fresh [None]; otherwise the list is the configured list object
\* itself, with None appended to it when it does not end with None.
CandidateListAlwaysAppend(configured) == configured \o <<None>>

CandidateList(configured) ==
    IF configured = <<>> THEN <<None>>
    ELSE IF configured[Len(configured)] # None THEN configured \o <<None>>
         ELSE configured

\* Line 481 appends to the list object held by Config.mirrors: the table
\* itself changes whenever the configured list is non-empty.
MirrorsAfterCall(m, registry) ==
    IF MirrorsGet(m, registry) = <<>> THEN m
    ELSE [m EXCEPT ![registry] = CandidateList(m[registry])]

\* Lines 464-472: the locals of one call of get_latest_digest(repopath, tag).
ResolverLocals(m, repopath, tag, image_info, registry) ==
    [repopath |-> repopath,
     image_info |-> image_info,
     registry |-> registry,
     image_tag |-> IF Truthy(tag) THEN tag ELSE Latest,
     mirror_list |-> CandidateList(MirrorsGet(m, registry))]

ResolverCall(m, repopath, tag) ==
    Only({Only({ResolverLocals(m, repopath, tag, image_info, registry) :
                registry \in {IF Truthy(image_info.registry)
                              THEN image_info.registry ELSE DockerIo}}) :
          image_info \in {parse_image_string(repopath)}})

\* Lines 489-510: the reference handed to "skopeo inspect" for a candidate.
ImageReference(c, mirror_url) ==
    IF Truthy(mirror_url)
    THEN IF c.registry = DockerIo /\ ~Truthy(c.image_info.user)
         THEN DockerScheme \o mirror_url \o <<"/">> \o c.image_info.repo
              \o <<":">> \o c.image_tag
         ELSE DockerScheme \o mirror_url \o <<"/">>
              \o RemoveAll(c.image_info.repopath, c.registry \o <<"/">>)
              \o <<":">> \o c.image_tag
    ELSE DockerScheme \o c.repopath \o <<":">> \o c.image_tag

\* Lines 696-714 of get_services_to_update: what is passed to the resolver
\* for a declared image.
ApiTag(info) == IF Truthy(info.tag) THEN info.tag ELSE Latest

ResolverArgument(info) == info.repopath

IsLocalRegistryLocalhostOnly(info) ==
    Truthy(info.registry) /\ info.registry = Localhost

IsLocalRegistry(info) ==
    Truthy(info.registry)
    /\ (info.registry = Localhost \/ info.registry = Loopback)

(***************************************************************************)
(* ManifestFileUpdater: the document update_docker_compose_file writes     *)
(***************************************************************************)

\* Lines 619-638: every planned service's image becomes the pinned string.
\* services_to_update is a sequence of [service, original_image_info,
\* new_digest], in the order the plan was filled.
RECURSIVE ApplyPlan(_, _)
ApplyPlan(image, entries) ==
    IF entries = <<>> THEN image
    ELSE LET e == Head(entries)
         IN  ApplyPlan([image EXCEPT ![e.service] =
                           build_image_string_with_digest(
                               e.original_image_info, e.new_digest)],
                       Tail(entries))

UpdatedDoc(doc, entries) == [doc EXCEPT !.image = ApplyPlan(doc.image, entries)]

\* Lines 609-616 and 627-629: the reloaded file has a services section
\* that holds every planned service; data["services"][service_name] raises
\* KeyError for any other.
ReloadedFileUsableAnyDoc(doc, entries) == doc.kind = "doc"

ReloadedFileUsable(doc, entries) ==
    /\ doc.kind = "doc"
    /\ \A k \in 1..Len(entries) : doc.image[entries[k].service] # Missing

\* Lines 618-640: the `updated` flag.  It is set when a planned service has
\* no image or an image other than the pinned string; the file is written
\* only when it is set.
WritesFileAlways(doc, entries) == TRUE

WritesFile(doc, entries) ==
    \E k \in 1..Len(entries) :
        doc.image[entries[k].service] #
            build_image_string_with_digest(entries[k].original_image_info,
                                           entries[k].new_digest)

(***************************************************************************)
(* The run: main, get_services_to_update, perform_deployment               *)
(***************************************************************************)

\* The compose projects of the machine.
Projects == {"p1", "p2"}

\* Marks of the per-service planning record.
Unvisited == <<"<unvisited>">>
SkippedNoImage == <<"<no image>">>
SkippedLocal == <<"<local>">>
NoCall == [registry |-> None]
NoResult == [kind |-> "none"]

VARIABLES
    configFile,     \* config.json: registry host -> list of mirrors
    compose_files,  \* get_compose_projects(): the manifests main walks
    rerun,          \* whether the script is started a second time
    mirrors,        \* Config.mirrors
    manifest,       \* project -> the compose file
    backup,         \* project -> the compose file's ".bak" sibling
    run,            \* "first" or "second": which run of the script this is
    pc,             \* where the script stands
    proj,           \* index of the project main is at
    svc,            \* index of the service get_services_to_update is at
    plan,           \* services_to_update
    call,           \* the locals of the running function call
    i,              \* the loop index of get_latest_digest
    latest_digest,  \* what get_latest_digest returned
    pullIdx,        \* index in plan of the next pull
    lastResult,     \* what the last inspect gave
    inspected,      \* history: the candidates the running call inspected
    resolved,       \* history: service -> what planning found for it
    trace,          \* history: the steps of the running deployment cycle
    preRun,         \* history: the manifests as the run found them
    preBackup,      \* history: the backups as the run found them
    firstOutcome,   \* history: project -> how its first-run cycle ended
    firstResolved   \* history: project -> its planning record, first run

vars == <<configFile, compose_files, rerun, mirrors, manifest, backup, run,
          pc, proj, svc, plan, call, i, latest_digest, pullIdx, lastResult,
          inspected, resolved, trace, preRun, preBackup, firstOutcome,
          firstResolved>>

setup == <<configFile, compose_files, rerun>>
files == <<manifest, backup>>
resolver == <<call, i, latest_digest, lastResult, inspected>>
history == <<preRun, preBackup, firstOutcome, firstResolved>>

CurrentProject == compose_files[proj]
CurrentService == ServiceOrder[svc]
DeclaredImage == manifest[CurrentProject].image[CurrentService]
NothingResolved == [s \in Services |-> Unvisited]

Has(t, name) == \E k \in 1..Len(t) : t[k] = name

\* How a cycle ended, read from its trace: the project was skipped, its
\* plan was empty, its manifest was rewritten, or a step failed first.
CycleOutcome(t) ==
    IF t = <<>> THEN "skipped"
    ELSE IF t = <<"plan_empty">> THEN "no_plan"
    ELSE IF Has(t, "update_updated") \/ Has(t, "update_no_change")
         THEN "updated"
         ELSE "failed"

\* What a run can find on disk for one project: the manifest alone; the
\* manifest and a backup an interrupted run left; after a run that was
\* interrupted between the two steps of its rollback, the backup alone; or
\* a manifest that holds nothing.
FilePairs ==
    {[m |-> d, b |-> Absent] : d \in DocPool}
    \cup {[m |-> d, b |-> StaleDoc] : d \in DocPool}
    \cup {[m |-> Absent, b |-> d] : d \in DocPool}
    \cup {[m |-> Empty, b |-> Absent]}

InitWith(projects, again, configs, pairs) ==
    /\ configFile \in configs
    /\ compose_files = projects
    /\ rerun = again
    /\ mirrors = <<>>
    /\ \E f \in [{projects[k] : k \in 1..Len(projects)} -> pairs] :
          /\ manifest = [p \in DOMAIN f |-> f[p].m]
          /\ backup = [p \in DOMAIN f |-> f[p].b]
    /\ run = "first"
    /\ pc = "start"
    /\ proj = 1
    /\ svc = 1
    /\ plan = <<>>
    /\ call = NoCall
    /\ i = 1
    /\ latest_digest = None
    /\ pullIdx = 1
    /\ lastResult = NoResult
    /\ inspected = <<>>
    /\ resolved = NothingResolved
    /\ trace = <<>>
    /\ preRun = manifest
    /\ preBackup = backup
    /\ firstOutcome = [p \in DOMAIN manifest |-> "not_run"]
    /\ firstResolved = [p \in DOMAIN manifest |-> NothingResolved]

InitFor(projects, again) == InitWith(projects, again, ConfigPool, FilePairs)

\* One run of the script over one project.
Init == InitFor(<<"p1">>, FALSE)

\* The script run twice in succession over one project.
InitTwice == InitFor(<<"p1">>, TRUE)

\* One run of the script over two projects.
ProjectsConfig == (DockerIo :> <<Mirror1>>) @@ (GhcrIo :> <<GhcrMirror>>)

ProjectsFilePairs ==
    {[m |-> Doc(ImgNginx, ImgTeamApp), b |-> Absent],
     [m |-> Doc(ImgGhcr, ImgLocal), b |-> StaleDoc],
     [m |-> Doc(ImgPinned, NoImage), b |-> Absent],
     [m |-> Absent, b |-> Doc(ImgNginx, ImgTeamApp)],
     [m |-> Empty, b |-> Absent]}

InitProjects ==
    InitWith(<<"p1", "p2">>, FALSE, {ProjectsConfig}, ProjectsFilePairs)

\* main, lines 843-857: load_config sets Config.mirrors from the file.
LoadConfig ==
    /\ pc = "start"
    /\ mirrors' = configFile
    /\ preRun' = manifest
    /\ preBackup' = backup
    /\ pc' = "project"
    /\ UNCHANGED <<setup, files, run, proj, svc, plan, resolver, pullIdx,
                   resolved, trace, firstOutcome, firstResolved>>

\* main, lines 859-866 and get_services_to_update, lines 678-687: the
\* directory is entered and the manifest is read.
BeginProject ==
    /\ pc = "project"
    /\ manifest[CurrentProject].kind = "doc"
    /\ pc' = "service"
    /\ UNCHANGED <<setup, mirrors, files, run, proj, svc, plan, resolver,
                   pullIdx, resolved, trace, history>>

\* main, lines 867-871: os.chdir raises OSError, the project is skipped.
ChdirFails ==
    /\ pc = "project"
    /\ pc' = "project_done"
    /\ UNCHANGED <<setup, mirrors, files, run, proj, svc, plan, resolver,
                   pullIdx, resolved, trace, history>>

\* get_services_to_update, lines 678-685: the manifest cannot be read or
\* parsed; the plan is empty and main goes on (lines 875-877).
ManifestUnreadable ==
    /\ pc = "project"
    /\ manifest[CurrentProject].kind \in {"absent", "partial"}
    /\ pc' = "project_done"
    /\ UNCHANGED <<setup, mirrors, files, run, proj, svc, plan, resolver,
                   pullIdx, resolved, trace, history>>

\* get_services_to_update, line 687: the manifest holds nothing, the parser
\* gave None, and `"services" in compose_config` raises TypeError.  Nothing
\* catches it: the script ends with a traceback.
AfterTypeError == "crashed"

ManifestEmpty ==
    /\ pc = "project"
    /\ manifest[CurrentProject].kind = "empty"
    /\ pc' = AfterTypeError
    /\ UNCHANGED <<setup, mirrors, files, run, proj, svc, plan, resolver,
                   pullIdx, resolved, trace, history>>

\* get_services_to_update, lines 689-694: a service without an image.
SkipNoImage ==
    /\ pc = "service"
    /\ svc <= Len(ServiceOrder)
    /\ ~Truthy(DeclaredImage)
    /\ resolved' = [resolved EXCEPT ![CurrentService] = SkippedNoImage]
    /\ svc' = svc + 1
    /\ UNCHANGED <<setup, mirrors, files, run, pc, proj, plan, resolver,
                   pullIdx, trace, history>>

\* get_services_to_update, lines 696-704: an image of a local registry.
SkipLocal ==
    /\ pc = "service"
    /\ svc <= Len(ServiceOrder)
    /\ Truthy(DeclaredImage)
    /\ \E info \in {parse_image_string(DeclaredImage)} : IsLocalRegistry(info)
    /\ resolved' = [resolved EXCEPT ![CurrentService] = SkippedLocal]
    /\ svc' = svc + 1
    /\ UNCHANGED <<setup, mirrors, files, run, pc, proj, plan, resolver,
                   pullIdx, trace, history>>

\* get_services_to_update, lines 706-714, and get_latest_digest up to its
\* loop, lines 464-485.
StartResolve ==
    /\ pc = "service"
    /\ svc <= Len(ServiceOrder)
    /\ Truthy(DeclaredImage)
    /\ \E info \in {parse_image_string(DeclaredImage)} :
          /\ ~IsLocalRegistry(info)
          /\ \E arg \in {ResolverArgument(info)}, tag \in {ApiTag(info)} :
                \E c \in {ResolverCall(mirrors, arg, tag)} :
                   /\ call' = c
                   /\ mirrors' = MirrorsAfterCall(mirrors, c.registry)
    /\ i' = 1
    /\ inspected' = <<>>
    /\ lastResult' = NoResult
    /\ latest_digest' = None
    /\ pc' = "inspect"
    /\ UNCHANGED <<setup, files, run, proj, svc, plan, pullIdx, resolved,
                   trace, history>>

\* Whether an inspect result carries a digest of the accepted form, and
\* which: what the history records of a candidate.
CarriedDigest(r) ==
    IF r.kind # "json" THEN None
    ELSE IF IsValidDigest(r.Digest) THEN r.Digest
         ELSE IF IsValidDigest(r.digest) THEN r.digest ELSE None

\* Lines 574-593: the loop returns at the first accepted digest, and ends
\* when the list is exhausted.
StopsLoopAtEnd(d, idx, n) == idx >= n

StopsLoop(d, idx, n) == d # None \/ idx >= n

\* A JSON value that is not a string: a number other than 0.
NotAString == <<"<number>">>

\* Lines 512-581: the exception the body of the try block raises past its
\* inner handlers (FileNotFoundError, line 545, and the JSONDecodeError of
\* the first json.loads, line 559), for an inspect result.  Popen raises
\* an OSError other than FileNotFoundError (the tool is not executable);
\* the text between the first "{" and the last "}" is not JSON, and the
\* second json.loads raises (line 566); the JSON is not an object, and
\* .get raises (line 572); the digest is not a string, and re.match
\* raises (line 574).
NoException == "none"

RaisedInLoop(r) ==
    IF r.kind = "os_error" THEN "OSError"
    ELSE IF r.kind = "unparsable_braces" THEN "JSONDecodeError"
    ELSE IF r.kind = "json_not_object" THEN "AttributeError"
    ELSE IF r.kind = "json"
            /\ (IF Truthy(r.Digest) THEN r.Digest ELSE r.digest) = NotAString
         THEN "TypeError"
         ELSE NoException

\* Lines 582-589: `except Exception` around the body of the loop: the
\* candidate failed, the loop goes to the next one.
CaughtInLoopJsonOnly(exc) == exc = "JSONDecodeError"

CaughtInLoop(exc) ==
    exc \in {"OSError", "JSONDecodeError", "AttributeError", "TypeError"}

\* get_latest_digest, lines 488-593: one turn of the loop, one inspect,
\* whose result is one of `results`.
InspectWith(results) ==
    /\ pc = "inspect"
    /\ \E r \in results :
          LET mirror_url == call.mirror_list[i]
              exc == RaisedInLoop(r)
              escaped == exc # NoException /\ ~CaughtInLoop(exc)
              d == IF exc # NoException THEN None ELSE DigestOfResult(r)
              stop == escaped \/ StopsLoop(d, i, Len(call.mirror_list))
          IN  /\ lastResult' = r
              /\ inspected' = Append(inspected,
                     [i |-> i, mirror_url |-> mirror_url,
                      ref |-> ImageReference(call, mirror_url),
                      carried |-> CarriedDigest(r)])
              /\ latest_digest' = IF d # None THEN d ELSE latest_digest
              /\ i' = IF stop THEN i ELSE i + 1
              /\ pc' = IF escaped THEN "crashed"
                       ELSE IF stop THEN "resolved" ELSE "inspect"
    /\ UNCHANGED <<setup, mirrors, files, run, proj, svc, plan, call,
                   pullIdx, resolved, trace, history>>

Inspect == InspectWith(InspectResults)

\* Lines 716-733: what get_services_to_update does with the digest.
PlanAfterKeepsFailed(entries, service, info, latest) ==
    IF info.digest # latest
    THEN Append(entries, [service |-> service, original_image_info |-> info,
                          new_digest |-> latest])
    ELSE entries

PlanAfterSameDigestToo(entries, service, info, latest) ==
    IF Truthy(latest)
    THEN Append(entries, [service |-> service, original_image_info |-> info,
                          new_digest |-> latest])
    ELSE entries

PlanAfter(entries, service, info, latest) ==
    IF Truthy(latest) /\ info.digest # latest
    THEN Append(entries, [service |-> service, original_image_info |-> info,
                          new_digest |-> latest])
    ELSE entries

RecordService ==
    /\ pc = "resolved"
    /\ \E info \in {parse_image_string(DeclaredImage)} :
          plan' = PlanAfter(plan, CurrentService, info, latest_digest)
    /\ resolved' = [resolved EXCEPT ![CurrentService] = latest_digest]
    /\ svc' = svc + 1
    /\ call' = NoCall
    /\ i' = 1
    /\ latest_digest' = None
    /\ lastResult' = NoResult
    /\ inspected' = <<>>
    /\ pc' = "service"
    /\ UNCHANGED <<setup, mirrors, files, run, proj, pullIdx, trace,
                   history>>

\* main, lines 873-879: an empty plan ends the project's cycle, any other
\* plan starts perform_deployment.
AfterPlanningAlwaysDeploys(entries) ==
    IF entries = <<>> THEN "backup" ELSE "pull"

AfterPlanning(entries) == IF entries = <<>> THEN "project_done" ELSE "pull"

FinishPlanning ==
    /\ pc = "service"
    /\ svc > Len(ServiceOrder)
    /\ pc' = AfterPlanning(plan)
    /\ trace' = Append(trace,
                        IF plan = <<>> THEN "plan_empty" ELSE "plan_ready")
    /\ pullIdx' = 1
    /\ UNCHANGED <<setup, mirrors, files, run, proj,
                   svc, plan, resolver, resolved, history>>

(***************************************************************************)
(* DeploymentOrchestrator: perform_deployment                              *)
(***************************************************************************)

Step(name) == trace' = Append(trace, name)

\* Lines 761-769: a failed pull breaks the loop and returns.
AfterPullFailureGoesOn == "backup"

AfterPullFailure == "project_done"

\* Lines 754-759: one pull of the loop, succeeding.
PullOk ==
    /\ pc = "pull"
    /\ Step("pull_ok")
    /\ pullIdx' = pullIdx + 1
    /\ pc' = IF pullIdx = Len(plan) THEN "backup" ELSE "pull"
    /\ UNCHANGED <<setup, mirrors, files, run, proj,
                   svc, plan, resolver, resolved, history>>

PullFails ==
    /\ pc = "pull"
    /\ Step("pull_failed")
    /\ pc' = AfterPullFailure
    /\ UNCHANGED <<setup, mirrors, files, run, proj, svc, plan, resolver,
                   pullIdx, resolved, history>>

\* Line 779: shutil.copyfile(compose_file_path, backup_file_path) replaces
\* whatever the backup path held.
BackupAfterCopyKeepsOld(m, b) == IF b = Absent THEN m ELSE b

BackupAfterCopy(m, b) == m

BackupOk ==
    /\ pc = "backup"
    /\ Step("backup_ok")
    /\ backup' = [backup EXCEPT ![CurrentProject] =
                     BackupAfterCopy(manifest[CurrentProject], @)]
    /\ pc' = "down"
    /\ UNCHANGED <<setup, mirrors, manifest, run, proj, svc, plan,
                   resolver, pullIdx, resolved, history>>

\* copyfile raises: the source could not be read or the target not opened
\* (the backup path is as it was), or the copy stopped half way.
\* The copy is the first statement of the try block (line 774): what it
\* raises reaches the except branch, past compose down and the rewrite.
AfterBackupFailureGoesOn == "down"

AfterBackupFailure == "rollback"

BackupFails ==
    /\ pc = "backup"
    /\ Step("backup_failed")
    /\ \E b \in {backup[CurrentProject], Partial} :
          backup' = [backup EXCEPT ![CurrentProject] = b]
    /\ pc' = AfterBackupFailure
    /\ UNCHANGED <<setup, mirrors, manifest, run, proj, svc, plan,
                   resolver, pullIdx, resolved, history>>

\* Lines 781-787: compose down; a failure raises RuntimeError.
AfterDownFailureGoesOn == "update"

AfterDownFailure == "rollback"

DownOk ==
    /\ pc = "down"
    /\ Step("down_ok")
    /\ pc' = "update"
    /\ UNCHANGED <<setup, mirrors, files, run, proj, svc, plan, resolver,
                   pullIdx, resolved, history>>

DownFails ==
    /\ pc = "down"
    /\ Step("down_failed")
    /\ pc' = AfterDownFailure
    /\ UNCHANGED <<setup, mirrors, files, run, proj, svc, plan, resolver,
                   pullIdx, resolved, history>>

\* Lines 789-800: update_docker_compose_file (lines 607-650) reloads the
\* manifest, rewrites the planned services and writes the file when one of
\* them changed; its "error" status raises RuntimeError.
AfterUpdateErrorGoesOn == "up"

AfterUpdateError == "rollback"

UpdateOk ==
    /\ pc = "update"
    /\ ReloadedFileUsable(manifest[CurrentProject], plan)
    /\ \E writes \in {WritesFile(manifest[CurrentProject], plan)} :
          /\ manifest' = [manifest EXCEPT ![CurrentProject] =
                             IF writes THEN UpdatedDoc(@, plan) ELSE @]
          /\ Step(IF writes THEN "update_updated" ELSE "update_no_change")
    /\ pc' = "up"
    /\ UNCHANGED <<setup, mirrors, backup, run, proj, svc, plan, resolver,
                   pullIdx, resolved, history>>

\* Lines 609-616 and 648-650: the file cannot be opened or parsed, holds
\* nothing or has no services section: nothing is written.
UpdateReadFails ==
    /\ pc = "update"
    /\ Step("update_error")
    /\ pc' = AfterUpdateError
    /\ UNCHANGED <<setup, mirrors, files, run, proj, svc, plan, resolver,
                   pullIdx, resolved, history>>

\* Lines 619-634 and 648-650: a planned service is not in the reloaded
\* file; the KeyError is caught before anything is written.
UpdateServiceMissing ==
    /\ pc = "update"
    /\ manifest[CurrentProject].kind = "doc"
    /\ ~ReloadedFileUsable(manifest[CurrentProject], plan)
    /\ Step("update_error")
    /\ pc' = AfterUpdateError
    /\ UNCHANGED <<setup, mirrors, files, run, proj, svc, plan, resolver,
                   pullIdx, resolved, history>>

\* Lines 640-650: open(..., "w") or dump raises: the file is as it was, or
\* it was truncated and written in part.
UpdateWriteFails ==
    /\ pc = "update"
    /\ ReloadedFileUsable(manifest[CurrentProject], plan)
    /\ WritesFile(manifest[CurrentProject], plan)
    /\ \E m \in {manifest[CurrentProject], Partial} :
          manifest' = [manifest EXCEPT ![CurrentProject] = m]
    /\ Step("update_error")
    /\ pc' = AfterUpdateError
    /\ UNCHANGED <<setup, mirrors, backup, run, proj, svc, plan, resolver,
                   pullIdx, resolved, history>>

\* Lines 802-820: the except branch.  With a backup on disk the manifest is
\* removed and the backup moved to its place.
RollbackFilesDropsBackup(m, b) == [m |-> m, b |-> Absent]

RollbackFilesCopies(m, b) == [m |-> b, b |-> b]

RollbackFiles(m, b) == [m |-> b, b |-> Absent]

\* Lines 822-825: whatever the except branch did, compose up follows.
AfterRollbackStopsOnFailure(outcome) ==
    IF outcome = "rollback_failed" THEN "project_done" ELSE "up"

AfterRollback(outcome) == "up"

RollbackOk ==
    /\ pc = "rollback"
    /\ backup[CurrentProject] # Absent
    /\ LET f == RollbackFiles(manifest[CurrentProject], backup[CurrentProject])
       IN  /\ manifest' = [manifest EXCEPT ![CurrentProject] = f.m]
           /\ backup' = [backup EXCEPT ![CurrentProject] = f.b]
    /\ Step("rollback_ok")
    /\ pc' = AfterRollback("rollback_ok")
    /\ UNCHANGED <<setup, mirrors, run, proj, svc, plan, resolver,
                   pullIdx, resolved, history>>

\* Line 810: os.remove(compose_file_path) raises OSError.
RollbackRemoveFails ==
    /\ pc = "rollback"
    /\ backup[CurrentProject] # Absent
    /\ manifest[CurrentProject] # Absent
    /\ Step("rollback_failed")
    /\ pc' = AfterRollback("rollback_failed")
    /\ UNCHANGED <<setup, mirrors, files, run, proj, svc, plan, resolver,
                   pullIdx, resolved, history>>

\* Line 811: shutil.move raises OSError after the manifest was removed.
RollbackMoveFails ==
    /\ pc = "rollback"
    /\ backup[CurrentProject] # Absent
    /\ manifest' = [manifest EXCEPT ![CurrentProject] = Absent]
    /\ Step("rollback_failed")
    /\ pc' = AfterRollback("rollback_failed")
    /\ UNCHANGED <<setup, mirrors, backup, run, proj, svc, plan, resolver,
                   pullIdx, resolved, history>>

\* Lines 819-820: no backup on disk, nothing to roll back to.
RollbackNoBackup ==
    /\ pc = "rollback"
    /\ backup[CurrentProject] = Absent
    /\ Step("rollback_no_backup")
    /\ pc' = AfterRollback("rollback_no_backup")
    /\ UNCHANGED <<setup, mirrors, files, run, proj, svc, plan, resolver,
                   pullIdx, resolved, history>>

\* Lines 822-830: compose up; its failure is only reported, and the
\* cleanup of the backup follows either way.
AfterUpFailureSkipsCleanup(outcome) ==
    IF outcome = "up_failed" THEN "project_done" ELSE "cleanup"

AfterUp(outcome) == "cleanup"

UpOk ==
    /\ pc = "up"
    /\ Step("up_ok")
    /\ pc' = AfterUp("up_ok")
    /\ UNCHANGED <<setup, mirrors, files, run, proj, svc, plan, resolver,
                   pullIdx, resolved, history>>

UpFails ==
    /\ pc = "up"
    /\ Step("up_failed")
    /\ pc' = AfterUp("up_failed")
    /\ UNCHANGED <<setup, mirrors, files, run, proj, svc, plan, resolver,
                   pullIdx, resolved, history>>

\* Lines 832-838: the backup, when there is one, is removed.
CleanupOk ==
    /\ pc = "cleanup"
    /\ backup[CurrentProject] # Absent
    /\ backup' = [backup EXCEPT ![CurrentProject] = Absent]
    /\ Step("cleanup_ok")
    /\ pc' = "project_done"
    /\ UNCHANGED <<setup, mirrors, manifest, run, proj, svc, plan,
                   resolver, pullIdx, resolved, history>>

CleanupFails ==
    /\ pc = "cleanup"
    /\ backup[CurrentProject] # Absent
    /\ Step("cleanup_failed")
    /\ pc' = "project_done"
    /\ UNCHANGED <<setup, mirrors, files, run, proj, svc, plan, resolver,
                   pullIdx, resolved, history>>

CleanupNothing ==
    /\ pc = "cleanup"
    /\ backup[CurrentProject] = Absent
    /\ pc' = "project_done"
    /\ UNCHANGED <<setup, mirrors, files, run, proj, svc, plan, resolver,
                   pullIdx, resolved, trace, history>>

\* main, line 859: the loop goes to the next manifest, or ends.
EndProject ==
    /\ pc = "project_done"
    /\ firstOutcome' = IF rerun /\ run = "first"
                       THEN [firstOutcome EXCEPT
                                ![CurrentProject] = CycleOutcome(trace)]
                       ELSE firstOutcome
    /\ firstResolved' = IF rerun /\ run = "first"
                        THEN [firstResolved EXCEPT ![CurrentProject] = resolved]
                        ELSE firstResolved
    /\ proj' = IF proj < Len(compose_files) THEN proj + 1 ELSE proj
    /\ pc' = IF proj < Len(compose_files) THEN "project" ELSE "prune"
    /\ svc' = 1
    /\ plan' = <<>>
    /\ pullIdx' = 1
    /\ resolved' = NothingResolved
    /\ trace' = <<>>
    /\ UNCHANGED <<setup, mirrors, files, run, resolver, preRun,
                   preBackup>>

\* main, lines 881-883: prune_old_images, and the script ends.
Prune ==
    /\ pc = "prune"
    /\ pc' = "done"
    /\ UNCHANGED <<setup, mirrors, files, run, proj, svc, plan, resolver,
                   pullIdx, resolved, trace, history>>

\* The script is started again: a new process, with Config as constructed
\* (lines 32-38).
NextRun ==
    /\ pc \in {"done", "crashed"}
    /\ rerun
    /\ run = "first"
    /\ run' = "second"
    /\ mirrors' = <<>>
    /\ proj' = 1
    /\ pc' = "start"
    /\ UNCHANGED <<setup, files, svc, plan, resolver, pullIdx, resolved,
                   trace, history>>

Next ==
    \/ LoadConfig \/ BeginProject \/ ChdirFails \/ ManifestUnreadable
    \/ ManifestEmpty
    \/ SkipNoImage \/ SkipLocal \/ StartResolve \/ Inspect \/ RecordService
    \/ FinishPlanning
    \/ PullOk \/ PullFails \/ BackupOk \/ BackupFails \/ DownOk \/ DownFails
    \/ UpdateOk \/ UpdateReadFails \/ UpdateWriteFails
    \/ RollbackOk \/ RollbackRemoveFails \/ RollbackMoveFails
    \/ RollbackNoBackup
    \/ UpOk \/ UpFails \/ CleanupOk \/ CleanupFails \/ CleanupNothing
    \/ EndProject \/ Prune

Spec == Init /\ [][Next]_vars

NextTwice == Next \/ NextRun

SpecTwice == InitTwice /\ [][NextTwice]_vars

SpecProjects == InitProjects /\ [][Next]_vars

(***************************************************************************)
(* parse_image_string and build_image_string_with_digest called on pinned  *)
(* references                                                              *)
(***************************************************************************)

HostWithPort == <<"h", ":", "5">>
RefRegistries == {None, GhcrIo, Localhost, Loopback, HostWithPort}
RefPaths == {ImgNginx, <<"t", "/", "a", "p", "p">>, <<"a", "/", "b", "/", "c">>}
RefTags == {None, <<"v", "2">>, <<"1", ".", "0">>}
RefDigests == {DigestA, DigestB}

\* [registry/]repoPath[:tag]@digest
Reference(registry, path, tag, digest) ==
    (IF registry # None THEN registry \o <<"/">> ELSE <<>>)
    \o path
    \o (IF tag # None THEN <<":">> \o tag ELSE <<>>)
    \o <<"@">> \o digest

References ==
    {Reference(r, p, t, d) :
        r \in RefRegistries, p \in RefPaths, t \in RefTags, d \in RefDigests}

InitCodec ==
    /\ configFile = ProjectsConfig
    /\ compose_files = <<"p1">>
    /\ rerun = FALSE
    /\ mirrors = configFile
    /\ manifest = [p \in {"p1"} |-> Absent]
    /\ backup = [p \in {"p1"} |-> Absent]
    /\ run = "first"
    /\ pc = "codec_parse"
    /\ proj = 1
    /\ svc = 1
    /\ plan = <<>>
    /\ \E r \in References : call = [image_full_name |-> r]
    /\ i = 1
    /\ latest_digest = None
    /\ pullIdx = 1
    /\ lastResult = NoResult
    /\ inspected = <<>>
    /\ resolved = NothingResolved
    /\ trace = <<>>
    /\ preRun = manifest
    /\ preBackup = backup
    /\ firstOutcome = [p \in {"p1"} |-> "not_run"]
    /\ firstResolved = [p \in {"p1"} |-> NothingResolved]

\* image_info = parse_image_string(image_full_name)
ParseReference ==
    /\ pc = "codec_parse"
    /\ call' = [image_full_name |-> call.image_full_name,
                image_info |-> parse_image_string(call.image_full_name)]
    /\ pc' = "codec_build"
    /\ UNCHANGED <<setup, mirrors, files, run, proj, svc, plan, i,
                   latest_digest, lastResult, inspected, pullIdx, resolved,
                   trace, history>>

\* build_image_string_with_digest(image_info, image_info["digest"]), and
\* the parse of what it built.
RebuildReference ==
    /\ pc = "codec_build"
    /\ \E built \in {build_image_string_with_digest(call.image_info,
                                                     call.image_info.digest)} :
          call' = [image_full_name |-> call.image_full_name,
                   image_info |-> call.image_info,
                   rebuilt |-> built,
                   reparsed |-> parse_image_string(built)]
    /\ pc' = "codec_done"
    /\ UNCHANGED <<setup, mirrors, files, run, proj, svc, plan, i,
                   latest_digest, lastResult, inspected, pullIdx, resolved,
                   trace, history>>

NextCodec == ParseReference \/ RebuildReference

SpecCodec == InitCodec /\ [][NextCodec]_vars

(***************************************************************************)
(* get_latest_digest called on any repopath and tag, the inspect output    *)
(* being any JSON text                                                     *)
(***************************************************************************)

InspectOutputs ==
    InspectResults
    \cup {InspectJson(DigestBLineFeed, None), InspectJson(NotAString, None),
          [kind |-> "os_error"], [kind |-> "unparsable_braces"],
          [kind |-> "json_not_object"]}

ResolverRepopaths == {ImgNginx, <<"t", "/", "a", "p", "p">>}
ResolverTags == {Latest, <<"v", "2">>}

InitResolver ==
    /\ configFile \in ConfigPool
    /\ compose_files = <<"p1">>
    /\ rerun = FALSE
    /\ \E repopath \in ResolverRepopaths, tag \in ResolverTags :
          \E c \in {ResolverCall(configFile, repopath, tag)} :
             /\ call = c
             /\ mirrors = MirrorsAfterCall(configFile, c.registry)
    /\ manifest = [p \in {"p1"} |-> Absent]
    /\ backup = [p \in {"p1"} |-> Absent]
    /\ run = "first"
    /\ pc = "inspect"
    /\ proj = 1
    /\ svc = 1
    /\ plan = <<>>
    /\ i = 1
    /\ latest_digest = None
    /\ pullIdx = 1
    /\ lastResult = NoResult
    /\ inspected = <<>>
    /\ resolved = NothingResolved
    /\ trace = <<>>
    /\ preRun = manifest
    /\ preBackup = backup
    /\ firstOutcome = [p \in {"p1"} |-> "not_run"]
    /\ firstResolved = [p \in {"p1"} |-> NothingResolved]

InspectAnyOutput == InspectWith(InspectOutputs)

NextResolver == InspectAnyOutput

SpecResolver == InitResolver /\ [][NextResolver]_vars

(***************************************************************************)
(* update_docker_compose_file called on any file with any plan             *)
(***************************************************************************)

NginxPinnedB == build_image_string_with_digest(parse_image_string(ImgNginx), DigestB)
TeamAppPinnedB ==
    build_image_string_with_digest(parse_image_string(ImgTeamApp), DigestB)

UpdaterFiles ==
    {Absent, Partial, Empty, NoServices,
     Doc(ImgNginx, ImgTeamApp), Doc(NginxPinnedB, ImgTeamApp),
     Doc(NginxPinnedB, TeamAppPinnedB), Doc(ImgNginx, Missing),
     Doc(NoImage, ImgTeamApp)}

PlanEntry(service, image, digest) ==
    [service |-> service, original_image_info |-> parse_image_string(image),
     new_digest |-> digest]

UpdaterPlans ==
    {<<>>,
     <<PlanEntry("web", ImgNginx, DigestB)>>,
     <<PlanEntry("db", ImgTeamApp, DigestB)>>,
     <<PlanEntry("web", ImgNginx, DigestB), PlanEntry("db", ImgTeamApp, DigestB)>>,
     <<PlanEntry("web", ImgNginx, DigestA)>>,
     <<PlanEntry("web", ImgNginx, DigestA), PlanEntry("db", ImgTeamApp, DigestB)>>}

InitUpdater ==
    /\ configFile = ProjectsConfig
    /\ compose_files = <<"p1">>
    /\ rerun = FALSE
    /\ mirrors = configFile
    /\ \E f \in UpdaterFiles : manifest = [p \in {"p1"} |-> f]
    /\ backup = [p \in {"p1"} |-> Absent]
    /\ run = "first"
    /\ pc = "update"
    /\ proj = 1
    /\ svc = 1
    /\ plan \in UpdaterPlans
    /\ call = NoCall
    /\ i = 1
    /\ latest_digest = None
    /\ pullIdx = 1
    /\ lastResult = NoResult
    /\ inspected = <<>>
    /\ resolved = NothingResolved
    /\ trace = <<>>
    /\ preRun = manifest
    /\ preBackup = backup
    /\ firstOutcome = [p \in {"p1"} |-> "not_run"]
    /\ firstResolved = [p \in {"p1"} |-> NothingResolved]

NextUpdater ==
    UpdateOk \/ UpdateReadFails \/ UpdateServiceMissing \/ UpdateWriteFails

SpecUpdater == InitUpdater /\ [][NextUpdater]_vars

(***************************************************************************)
(* Properties                                                              *)
(***************************************************************************)

\* Whether step b stands in the trace after an occurrence of step a.
Follows(t, a, b) ==
    \E j \in 1..Len(t), k \in 1..Len(t) : j < k /\ t[j] = a /\ t[k] = b

RollbackSteps == {"rollback_ok", "rollback_failed", "rollback_no_backup"}
UpSteps == {"up_ok", "up_failed"}
DownSteps == {"down_ok", "down_failed"}

CycleEnded == pc = "project_done"

C2_PullFailureAborts ==
    Has(trace, "pull_failed")
        => /\ CycleEnded
           /\ trace[Len(trace)] = "pull_failed"
           /\ \A k \in 1..(Len(trace) - 1) :
                 trace[k] \in {"plan_ready", "pull_ok"}
           /\ manifest = preRun
           /\ backup = preBackup

C2_Witness ==
    /\ CycleEnded
    /\ Len(plan) = 2
    /\ trace = <<"plan_ready", "pull_failed">>

\* C3: once compose down was invoked, compose up is invoked afterwards in
\* the same cycle, whatever failed in between: the cycle does not end, and
\* does not reach its cleanup, before compose up ran.
C3_UpFollowsDown ==
    (\E k \in 1..Len(trace) : trace[k] \in DownSteps)
        => \/ \E a \in DownSteps, b \in UpSteps : Follows(trace, a, b)
           \/ pc \in {"update", "rollback", "up"}

C3_Witness ==
    /\ CycleEnded
    /\ Follows(trace, "down_failed", "rollback_failed")
    /\ Follows(trace, "rollback_failed", "up_ok")

C5_AsClaimed ==
    (pc = "service" /\ preBackup[CurrentProject] # Absent)
        => manifest[CurrentProject] = preBackup[CurrentProject]

\* C5, amended: a backup file that exists as the run comes to a project is
\* not used to restore the manifest: planning and the pulls work on the
\* manifest as found, with the leftover backup in place, and a successful
\* backup copy then overwrites the leftover with the manifest's content.
C5_LeftoverBackupOverwritten ==
    preBackup[CurrentProject] # Absent
        => /\ pc \in {"service", "inspect", "resolved", "pull", "backup"}
                 => /\ manifest[CurrentProject] = preRun[CurrentProject]
                    /\ backup[CurrentProject] = preBackup[CurrentProject]
           /\ pc = "down" => backup[CurrentProject] = preRun[CurrentProject]

C5_Witness ==
    /\ pc = "down"
    /\ preBackup[CurrentProject] = StaleDoc
    /\ backup[CurrentProject] = preRun[CurrentProject]
    /\ backup[CurrentProject] # preBackup[CurrentProject]

\* The registry host named in an image string, docker.io when it names none.
DeclaredRegistry(image) ==
    Only({IF Truthy(info.registry) THEN info.registry ELSE DockerIo :
          info \in {parse_image_string(image)}})

\* C6, as claimed: the resolver works on the registry named in the declared
\* image: the mirror list it consults is that registry's.
C6_AsClaimed ==
    pc = "inspect" => call.registry = DeclaredRegistry(DeclaredImage)

\* C7: the resolver returns the digest of the first candidate whose
\* inspection carried a valid digest; candidates are inspected in list
\* order, and none is inspected after one succeeded.
C7_FirstSuccessWins ==
    /\ pc \in {"inspect", "resolved"}
          => \A k \in 1..Len(inspected) :
                /\ inspected[k].i = k
                /\ inspected[k].mirror_url = call.mirror_list[k]
                /\ k < Len(inspected) => inspected[k].carried = None
    /\ pc = "inspect" => \A k \in 1..Len(inspected) : inspected[k].carried = None
    /\ (pc = "resolved" /\ Truthy(latest_digest))
          => /\ Len(inspected) >= 1
             /\ inspected[Len(inspected)].carried = latest_digest
             /\ IsValidDigest(latest_digest)

C7_Witness ==
    /\ pc = "resolved"
    /\ Len(call.mirror_list) = 3
    /\ Len(inspected) = 2
    /\ inspected[1].carried = None
    /\ inspected[2].carried = latest_digest
    /\ Truthy(latest_digest)

IsMirror(x) == x # None

\* C8: the candidate list of a call is the configured mirrors of the
\* consulted registry in their configured order followed by the origin
\* registry, the origin appearing exactly once and last, and each
\* candidate is inspected at most once in a call.
C8_CandidateOrder ==
    pc \in {"inspect", "resolved"}
        => /\ call.mirror_list =
                 SelectSeq(MirrorsGet(configFile, call.registry), IsMirror)
                     \o <<None>>
           /\ Cardinality({k \in 1..Len(call.mirror_list) :
                              call.mirror_list[k] = None}) = 1
           /\ Len(inspected) <= Len(call.mirror_list)
           /\ \A j \in 1..Len(inspected), k \in 1..Len(inspected) :
                 inspected[j].i = inspected[k].i => j = k

C8_Witness ==
    /\ pc = "resolved"
    /\ svc = 2
    /\ mirrors # configFile
    /\ Len(call.mirror_list) = 3
    /\ Len(inspected) = 3

PlannedServices == {plan[k].service : k \in 1..Len(plan)}

PlanningDone == Has(trace, "plan_empty") \/ Has(trace, "plan_ready")

\* C9: when every candidate's inspection fails, the resolver returns no
\* digest after trying them all; a service without a resolved digest is
\* left out of the plan; and the project's other services are still
\* visited and, when their digest differs, planned.
C9_AllFailNoDigest ==
    /\ (pc = "resolved" /\ \A k \in 1..Len(inspected) : inspected[k].carried = None)
          => /\ latest_digest = None
             /\ Len(inspected) = Len(call.mirror_list)
    /\ \A s \in Services : resolved[s] = None => s \notin PlannedServices
    /\ PlanningDone
          => \A s \in Services :
                /\ resolved[s] # Unvisited
                /\ (/\ IsValidDigest(resolved[s])
                    /\ \E info \in {parse_image_string(preRun[CurrentProject].image[s])} :
                          info.digest # resolved[s])
                      => s \in PlannedServices

C9_Witness ==
    /\ Has(trace, "plan_ready")
    /\ resolved["web"] = None
    /\ PlannedServices = {"db"}
    /\ IsValidDigest(resolved["db"])

\* The second run has finished planning, and every service's resolution
\* came out as in the first run.
SecondPlanSameUpstream ==
    /\ rerun
    /\ run = "second"
    /\ PlanningDone
    /\ resolved = firstResolved[CurrentProject]

DeclaresLocalRegistry(image) ==
    \E info \in {parse_image_string(image)} :
        info.registry \in {Localhost, Loopback}

\* Whether a service of the manifest as found has an image, of a registry
\* that is not local, whose resolution gave a digest other than the one
\* embedded in the image string.
NeedsRewrite(s) ==
    \E image \in {preRun[CurrentProject].image[s]} :
        /\ Truthy(image)
        /\ ~DeclaresLocalRegistry(image)
        /\ IsValidDigest(resolved[s])
        /\ \E info \in {parse_image_string(image)} : info.digest # resolved[s]

\* C11: the plan get_services_to_update returns holds exactly the services
\* that have an image, of a registry that is not localhost or 127.0.0.1,
\* whose resolution gave a digest, and whose resolved digest differs from
\* the digest embedded in the declared image (none embedded: it differs);
\* each entry carries the declared image and the resolved digest.
C11_PlanExact ==
    PlanningDone
        => /\ \A s \in Services : s \in PlannedServices <=> NeedsRewrite(s)
           /\ \A j \in 1..Len(plan), k \in 1..Len(plan) :
                 plan[j].service = plan[k].service => j = k
           /\ \A k \in 1..Len(plan) :
                 /\ plan[k].new_digest = resolved[plan[k].service]
                 /\ plan[k].original_image_info.raw =
                       preRun[CurrentProject].image[plan[k].service]

C11_Witness ==
    /\ PlanningDone
    /\ preRun[CurrentProject] = Doc(ImgPinned, NoImage)
    /\ resolved["web"] = DigestB
    /\ PlannedServices = {"web"}

\* C12: a service whose image names the registry localhost or 127.0.0.1 is
\* never in the plan and no inspect is made for it, whatever its tag or
\* embedded digest.
C12_LocalNeverResolved ==
    /\ pc \in {"inspect", "resolved"} => ~DeclaresLocalRegistry(DeclaredImage)
    /\ (pc \in {"service", "inspect", "resolved", "pull"} \/ PlanningDone)
          => \A s \in Services :
                \E image \in {preRun[CurrentProject].image[s]} :
                   (Truthy(image) /\ DeclaresLocalRegistry(image))
                       => /\ s \notin PlannedServices
                          /\ resolved[s] \in {Unvisited, SkippedLocal}

C12_Witness ==
    /\ PlanningDone
    /\ preRun[CurrentProject] = Doc(ImgLocalPinned, ImgOld)
    /\ resolved["web"] = SkippedLocal
    /\ PlannedServices = {"db"}

\* C13, as claimed: no failure in one project's cycle ends the run; when
\* the run has stopped walking the projects, it has come to the last one.
C13_AsClaimed ==
    pc \in {"prune", "done", "crashed"} => proj = Len(compose_files)

\* The pinned string update_docker_compose_file aims at for a plan entry.
TargetOf(e) == build_image_string_with_digest(e.original_image_info, e.new_digest)

\* Whether every planned service of a document holds its pinned string.
AllHoldTarget(doc, entries) ==
    \A k \in 1..Len(entries) : doc.image[entries[k].service] = TargetOf(entries[k])

\* Whether a file is a document that holds every planned service.
HoldsPlannedServices(file, entries) ==
    /\ file.kind = "doc"
    /\ \A k \in 1..Len(entries) : file.image[entries[k].service] # Missing

\* C14: update_docker_compose_file writes the file only when the image of a
\* planned service changed; when every planned service holds its pinned
\* string already, it reports no_change and the file is as it was.
C14_WritesOnlyIfChanged ==
    /\ Has(trace, "update_updated")
          => /\ ~AllHoldTarget(preRun[CurrentProject], plan)
             /\ manifest[CurrentProject] # preRun[CurrentProject]
             /\ AllHoldTarget(manifest[CurrentProject], plan)
    /\ Has(trace, "update_no_change")
          => /\ AllHoldTarget(preRun[CurrentProject], plan)
             /\ manifest[CurrentProject] = preRun[CurrentProject]
    /\ (/\ trace # <<>>
        /\ HoldsPlannedServices(preRun[CurrentProject], plan)
        /\ AllHoldTarget(preRun[CurrentProject], plan))
          => /\ ~Has(trace, "update_updated")
             /\ manifest[CurrentProject] = preRun[CurrentProject]

C14_Witness ==
    /\ trace = <<"update_no_change">>
    /\ Len(plan) = 2
    /\ preRun[CurrentProject] = Doc(NginxPinnedB, TeamAppPinnedB)
    /\ manifest[CurrentProject] = preRun[CurrentProject]

\* C15, as claimed: whenever update_docker_compose_file reports "error",
\* the file was not written.
C15_AsClaimed ==
    Has(trace, "update_error")
        => manifest[CurrentProject] = preRun[CurrentProject]

\* C15, amended: on a manifest that is missing, unparsable, empty or
\* without a services section, or that lacks a planned service, the only
\* outcome of update_docker_compose_file is the status "error", returned
\* to the caller, with the file as it was; an "error" that leaves the file
\* changed comes from a write that began and failed, and leaves it
\* partially written.
C15_ErrorBeforeWriteLeavesFile ==
    /\ (trace # <<>> /\ ~HoldsPlannedServices(preRun[CurrentProject], plan))
          => /\ trace = <<"update_error">>
             /\ manifest[CurrentProject] = preRun[CurrentProject]
    /\ Has(trace, "update_error")
          => /\ pc = "rollback"
             /\ manifest[CurrentProject] \in {preRun[CurrentProject], Partial}
             /\ manifest[CurrentProject] # preRun[CurrentProject]
                   => /\ HoldsPlannedServices(preRun[CurrentProject], plan)
                      /\ ~AllHoldTarget(preRun[CurrentProject], plan)

C15_Witness ==
    /\ trace = <<"update_error">>
    /\ preRun[CurrentProject] = Doc(ImgNginx, Missing)
    /\ Len(plan) = 2
    /\ manifest[CurrentProject] = preRun[CurrentProject]

\* C16, as claimed: once loaded, Config.mirrors holds what config.json
\* holds, whatever resolutions were made.
C16_AsClaimed ==
    pc # "start" => mirrors = configFile

C18_EmptyPlanNoDeployment ==
    /\ Has(trace, "plan_empty")
          => /\ trace = <<"plan_empty">>
             /\ CycleEnded
             /\ manifest[CurrentProject] = preRun[CurrentProject]
             /\ backup[CurrentProject] = preBackup[CurrentProject]
    /\ (plan = <<>> /\ trace # <<>>) => trace = <<"plan_empty">>

C18_Witness ==
    /\ CycleEnded
    /\ trace = <<"plan_empty">>
    /\ preRun[CurrentProject] = Doc(ImgPinned, NoImage)
    /\ resolved["web"] = DigestA
    /\ preBackup[CurrentProject] = StaleDoc

\* C19: for a reference [registry/]repoPath[:tag]@digest with a valid
\* digest, building from its parse with its own digest gives the reference
\* back, and the parse of what was built has the registry, repopath, tag
\* and digest of the first parse.
C19_RoundTrip ==
    /\ pc \in {"codec_build", "codec_done"}
          => /\ IsValidDigest(call.image_info.digest)
             /\ call.image_info.raw = call.image_full_name
    /\ pc = "codec_done"
          => /\ call.rebuilt = call.image_full_name
             /\ call.reparsed.registry = call.image_info.registry
             /\ call.reparsed.repopath = call.image_info.repopath
             /\ call.reparsed.tag = call.image_info.tag
             /\ call.reparsed.digest = call.image_info.digest

C19_Witness ==
    /\ pc = "codec_done"
    /\ call.image_full_name =
          Reference(HostWithPort, <<"t", "/", "a", "p", "p">>, <<"v", "2">>, DigestB)
    /\ call.image_info.registry = HostWithPort
    /\ call.image_info.tag = <<"v", "2">>
    /\ call.image_info.digest = DigestB
    /\ call.rebuilt = call.image_full_name

\* "sha256:" followed by 64 lower-case hex characters, and nothing else.
IsSha256Digest(d) ==
    /\ Len(d) = Len(Sha256Colon) + HexLen
    /\ SubSeq(d, 1, Len(Sha256Colon)) = Sha256Colon
    /\ \A k \in (Len(Sha256Colon) + 1)..Len(d) : d[k] \in HexDigits

\* C20, as claimed: every digest get_latest_digest returns is "sha256:"
\* followed by 64 lower-case hex characters.
C20_AsClaimed ==
    (pc = "resolved" /\ latest_digest # None) => IsSha256Digest(latest_digest)

PullSteps == {"pull_ok", "pull_failed"}
BackupSteps == {"backup_ok", "backup_failed"}
UpdateSteps == {"update_updated", "update_no_change", "update_error"}
CleanupSteps == {"cleanup_ok", "cleanup_failed"}

\* The place of a step in the order of a cycle.
StepRank(e) ==
    IF e \in {"plan_empty", "plan_ready"} THEN 0
    ELSE IF e \in PullSteps THEN 1
    ELSE IF e \in BackupSteps THEN 2
    ELSE IF e \in DownSteps THEN 3
    ELSE IF e \in UpdateSteps THEN 4
    ELSE IF e \in RollbackSteps THEN 5
    ELSE IF e \in UpSteps THEN 6
    ELSE 7

HasOneOf(t, steps) == \E k \in 1..Len(t) : t[k] \in steps

StepInOrder(t, e) ==
    /\ \A k \in 1..Len(t) :
          \/ StepRank(t[k]) < StepRank(e)
          \/ t[k] = "pull_ok" /\ e \in PullSteps
    /\ e \in PullSteps => t[Len(t)] \in {"plan_ready", "pull_ok"}
    /\ e \in BackupSteps
          => /\ t[Len(t)] = "pull_ok"
             /\ Cardinality({k \in 1..Len(t) : t[k] = "pull_ok"}) = Len(plan)
    /\ e \in DownSteps => t[Len(t)] = "backup_ok"
    /\ e \in UpdateSteps => t[Len(t)] = "down_ok"
    /\ e \in RollbackSteps
          => t[Len(t)] \in {"backup_failed", "down_failed", "update_error"}
    /\ e \in UpSteps
          => t[Len(t)] \in {"update_updated", "update_no_change"} \cup RollbackSteps
    /\ e \in CleanupSteps => t[Len(t)] \in UpSteps

C22_BackupPrecedesMutation ==
    /\ pc \in {"down", "update"}
          => /\ trace[Len(trace)] \in {"backup_ok", "down_ok"}
             /\ Has(trace, "backup_ok")
             /\ manifest[CurrentProject] = preRun[CurrentProject]
             /\ backup[CurrentProject] = preRun[CurrentProject]
    /\ HasOneOf(trace, UpdateSteps)
          => /\ Follows(trace, "backup_ok", "down_ok")
             /\ trace[Len(trace)] \in UpdateSteps
                   => backup[CurrentProject] = preRun[CurrentProject]
    /\ Has(trace, "backup_failed")
          => /\ ~HasOneOf(trace, DownSteps)
             /\ ~HasOneOf(trace, UpdateSteps)
             /\ ~Has(trace, "backup_ok")

C22_Witness ==
    /\ pc = "up"
    /\ trace[Len(trace)] = "update_updated"
    /\ preBackup[CurrentProject] = StaleDoc
    /\ backup[CurrentProject] = preRun[CurrentProject]
    /\ manifest[CurrentProject] # preRun[CurrentProject]

\* A declared image string without its "@digest" part, if it has one:
\* [registry/]repoPath[:tag].
WithoutDigest(image) ==
    IF IndexOf(image, "@") > 0
    THEN SubSeq(image, 1, IndexOf(image, "@") - 1)
    ELSE image

\* [registry/]repoPath[:tag]@digest of a declared image string.
Pinned(image, digest) == WithoutDigest(image) \o <<"@">> \o digest

\* C23: once pull, backup, compose down and the manifest update of a cycle
\* have succeeded, the manifest holds, for every planned service, the
\* service's image as found, [registry/]repoPath[:tag] with the registry
\* and the tag it had, followed by "@" and the entry's new digest, which is
\* the digest the resolution gave; every other service has the image the
\* manifest was found with.
C23_RewrittenImages ==
    Has(trace, "update_updated")
        => /\ Follows(trace, "pull_ok", "backup_ok")
           /\ Follows(trace, "backup_ok", "down_ok")
           /\ Follows(trace, "down_ok", "update_updated")
           /\ manifest[CurrentProject].kind = "doc"
           /\ \A k \in 1..Len(plan) :
                 /\ plan[k].new_digest = resolved[plan[k].service]
                 /\ manifest[CurrentProject].image[plan[k].service]
                      = Pinned(preRun[CurrentProject].image[plan[k].service],
                               plan[k].new_digest)
           /\ \A s \in Services \ PlannedServices :
                 manifest[CurrentProject].image[s]
                     = preRun[CurrentProject].image[s]

C23_Witness ==
    /\ CycleEnded
    /\ Has(trace, "update_updated")
    /\ Has(trace, "cleanup_ok")
    /\ preRun[CurrentProject] = Doc(ImgGhcr, ImgLocal)
    /\ manifest[CurrentProject]
          = Doc(ImgGhcr \o <<"@">> \o DigestB, ImgLocal)

\* C24, as claimed: when compose down failed after the backup was taken, the
\* manifest update is not executed, and from the rollback on, compose up
\* included, the manifest holds its pre-run content.
C24_AsClaimed ==
    Has(trace, "down_failed")
        => /\ ~HasOneOf(trace, UpdateSteps)
           /\ pc \in {"up", "cleanup", "project_done"}
                 => manifest[CurrentProject] = preRun[CurrentProject]

\* C24, amended: when compose down failed after the backup was taken, the
\* manifest update is not executed and the rollback finds the backup; when
\* its remove and move raise no OSError, the backup has been moved over
\* the manifest, which holds its pre-run content, and the backup path is
\* empty; when one of them raises, the manifest is as found or gone and
\* compose up runs with the backup still holding the pre-run content;
\* compose up is invoked after the rollback attempt either way.
C24_DownFailureRollsBack ==
    Has(trace, "down_failed")
        => /\ Follows(trace, "backup_ok", "down_failed")
           /\ ~HasOneOf(trace, UpdateSteps)
           /\ ~Has(trace, "rollback_no_backup")
           /\ pc = "rollback"
                 => /\ manifest[CurrentProject] = preRun[CurrentProject]
                    /\ backup[CurrentProject] = preRun[CurrentProject]
           /\ pc \in {"up", "cleanup", "project_done"}
                 => \/ /\ Follows(trace, "down_failed", "rollback_ok")
                       /\ manifest[CurrentProject] = preRun[CurrentProject]
                       /\ backup[CurrentProject] = Absent
                    \/ /\ Follows(trace, "down_failed", "rollback_failed")
                       /\ manifest[CurrentProject]
                             \in {preRun[CurrentProject], Absent}
                       /\ pc = "up"
                             => backup[CurrentProject] = preRun[CurrentProject]
           /\ \A u \in UpSteps :
                 Has(trace, u) => \E r \in RollbackSteps : Follows(trace, r, u)
           /\ CycleEnded => HasOneOf(trace, UpSteps)

C24_Witness ==
    /\ CycleEnded
    /\ Follows(trace, "down_failed", "rollback_ok")
    /\ Follows(trace, "rollback_ok", "up_ok")
    /\ manifest[CurrentProject] = preRun[CurrentProject]
    /\ backup[CurrentProject] = Absent
    /\ preBackup[CurrentProject] = StaleDoc

\* C25, as claimed: at the end of every cycle the manifest holds the
\* successfully updated content, or the manifest holds its pre-run
\* content, or the backup file holds the pre-run content.
C25_AsClaimed ==
    CycleEnded
        => \/ manifest[CurrentProject] = preRun[CurrentProject]
           \/ /\ Has(trace, "update_updated")
              /\ manifest[CurrentProject] = UpdatedDoc(preRun[CurrentProject], plan)
           \/ backup[CurrentProject] = preRun[CurrentProject]

\* The number of mirrors config.json lists for the registry of the call.
ConfiguredMirrors ==
    Len(SelectSeq(MirrorsGet(configFile, call.registry),
                  LAMBDA m : m # None))

\* C26, as claimed: a call of get_latest_digest with n configured mirrors
\* makes at most n + 1 inspect calls, no exception escapes it whatever the
\* inspect gives, and it returns failure or a valid digest: "sha256:"
\* followed by 64 lower-case hex characters.
C26_AsClaimed ==
    /\ pc # "crashed"
    /\ Len(inspected) <= ConfiguredMirrors + 1
    /\ pc = "inspect" => Len(inspected) < Len(call.mirror_list)
    /\ pc = "resolved"
          => \/ latest_digest = None /\ Len(inspected) = ConfiguredMirrors + 1
             \/ latest_digest # None /\ IsSha256Digest(latest_digest)

\* C26, the part that holds: the loop index goes up by one with every
\* inspect and stays within the candidate list, which has one entry more
\* than there are configured mirrors; no exception escapes; the call
\* returns failure after all candidates, or the first string the pattern
\* of line 574 accepted.
C26_TerminatesWithinBound ==
    /\ pc # "crashed"
    /\ Len(call.mirror_list) = ConfiguredMirrors + 1
    /\ pc = "inspect" => i = Len(inspected) + 1 /\ i <= Len(call.mirror_list)
    /\ pc = "resolved"
          => /\ Len(inspected) = i
             /\ i <= Len(call.mirror_list)
             /\ \/ latest_digest = None /\ i = Len(call.mirror_list)
                \/ /\ latest_digest # None
                   /\ IsValidDigest(latest_digest)
                   /\ latest_digest = inspected[i].carried
             /\ \A k \in 1..(i - 1) : inspected[k].carried = None

====
